---- MODULE Spec2Model ----
(***************************************************************************)
(* Model of src/bl.c: the bootloader() command loop, the transport         *)
(* multiplexer (cin/cout), the inactivity timer, and the flash programming *)
(* state (address, first_word, key region).                                *)
(*                                                                         *)
(* One action models one pass of the while(true) loop of bootloader():     *)
(* the opcode read, every argument/payload/EOC read of the handler, the    *)
(* handler's flash operations and the reply.  What the host sends and what *)
(* the flash driver does are the action's inputs.                          *)
(***************************************************************************)
EXTENDS Integers, Sequences, FiniteSets, TLC

----------------------------------------------------------------------------
\* Protocol bytes (src/bl.c:110-141)
PROTO_INSYNC == 18
PROTO_EOC == 32
PROTO_OK == 16
PROTO_FAILED == 17
PROTO_INVALID == 19
PROTO_BAD_SILICON_REV == 20
PROTO_BAD_KEY == 21
PROTO_GET_SYNC == 33
PROTO_GET_DEVICE == 34
PROTO_CHIP_ERASE == 35
PROTO_PROG_MULTI == 39
PROTO_GET_CRC == 41
PROTO_GET_OTP == 42
PROTO_GET_SN == 43
PROTO_SET_DELAY == 45
PROTO_BOOT == 48
PROTO_DEBUG == 49
PROTO_PROG_MULTI_MAX == 255
PROTO_SET_IV == 54
PROTO_PROG_MULTI_ENCRYPTED == 55
PROTO_CHECK_CRC == 56
PROTO_CHECK_KEY == 57
PROTO_DEVICE_BL_REV == 1
PROTO_DEVICE_BOARD_ID == 2
PROTO_DEVICE_BOARD_REV == 3
PROTO_DEVICE_FW_SIZE == 4
PROTO_DEVICE_VEC_AREA == 5
BL_PROTOCOL_VERSION == 7

\* A uint32_t is the tuple of its four bytes in memory order (little-endian
\* target): 0xDDCCBBAA is <<170, 187, 204, 221>>.
\* 0xffffffff, the value of an erased flash word
ERASED_WORD == << 255, 255, 255, 255 >>
ZERO_WORD == << 0, 0, 0, 0 >>

\* bl_type / last_input values (bl.h)
NONE == "NONE"
USB == "USB"
USART == "USART"

\* "no reply" marker for an opcode the switch ignores (default: continue)
NO_REPLY == 0

----------------------------------------------------------------------------
\* Bounds of the model

\* number of erase sectors of the application region
NSectors == 3
\* the inactivity timeout of a session entered with one, in ticks
MaxTimeout == 1

\* Board descriptor: words per erase sector and size of the flashable area
SectorWords == 4
fw_size == 4 * SectorWords * NSectors
board_type == 9
board_rev == 0
FwWords == fw_size \div 4

----------------------------------------------------------------------------
\* Bit operations on machine words

RECURSIVE BitAnd(_, _)
BitAnd(a, b) ==
  IF a = 0 \/ b = 0 THEN 0
  ELSE (a % 2) * (b % 2) + 2 * BitAnd(a \div 2, b \div 2)

RECURSIVE BitXor(_, _)
BitXor(a, b) ==
  IF a = 0 THEN b
  ELSE IF b = 0 THEN a
  ELSE (((a % 2) + (b % 2)) % 2) + 2 * BitXor(a \div 2, b \div 2)

\* a & b on uint32_t, with the cases that need no bit loop taken first
And32(a, b) ==
  IF a = b THEN a
  ELSE IF a = ERASED_WORD THEN b
  ELSE IF b = ERASED_WORD THEN a
  ELSE [i \in 1..4 |-> BitAnd(a[i], b[i])]

\* a ^ b on uint8_t, from the table of the sixteen-by-sixteen nibble cases
XorNibble == [a \in 0..15 |-> [b \in 0..15 |-> BitXor(a, b)]]
Xor8(a, b) == 16 * XorNibble[a \div 16][b \div 16] + XorNibble[a % 16][b % 16]

Xor32(a, b) == << Xor8(a[1], b[1]), Xor8(a[2], b[2]), Xor8(a[3], b[3]), Xor8(a[4], b[4]) >>

\* the numeric value of a uint32_t that is known to be below 2^16, and the test
\* for it (TLC's integers end at 2^31 - 1)
Below65536(w) == w[3] = 0 /\ w[4] = 0
LowValue(w) == w[1] + 256 * w[2]
\* the uint32_t of a number below 2^16
Word(n) == << n % 256, (n \div 256) % 256, 0, 0 >>

\* flash_buffer_t: word i (0-based) of the byte array seen through the union
WordOf(c, i) == << c[4*i + 1], c[4*i + 2], c[4*i + 3], c[4*i + 4] >>

BytesToWords(c) == [i \in 1..(Len(c) \div 4) |-> WordOf(c, i - 1)]

RECURSIVE WordsToBytes(_)
WordsToBytes(ws) ==
  IF ws = << >> THEN << >> ELSE Head(ws) \o WordsToBytes(Tail(ws))

----------------------------------------------------------------------------
\* crc32(): table generation and the byte loop.  The table generation works
\* on the two 16-bit halves <<hi, lo>> of c.

CRC_POLY_HI == 60856
CRC_POLY_LO == 33568

RECURSIVE CrcTabEntry(_, _, _)
CrcTabEntry(hi, lo, j) ==
  IF j = 0 THEN << lo % 256, lo \div 256, hi % 256, hi \div 256 >>
  ELSE LET shi == hi \div 2
           slo == (lo \div 2) + 32768 * (hi % 2)
       IN  IF lo % 2 = 1
           THEN CrcTabEntry(BitXor(CRC_POLY_HI, shi), BitXor(CRC_POLY_LO, slo), j - 1)
           ELSE CrcTabEntry(shi, slo, j - 1)

crctab == [i \in 0..255 |-> CrcTabEntry(0, i, 8)]

\* one pass of the byte loop (line 550)
Crc32Byte(state, b) ==
  Xor32(crctab[Xor8(state[1], b)], << state[2], state[3], state[4], 0 >>)

\* the byte loop (lines 549-553); state is compared at every byte so that it is
\* evaluated before the next byte is taken, not as one nested expression
RECURSIVE crc32(_, _)
crc32(src, state) ==
  IF src = << >> \/ state = << >> THEN state
  ELSE crc32(Tail(src), Crc32Byte(state, Head(src)))

----------------------------------------------------------------------------
\* What the host uploads: the image of end-to-end scenario 3 (AA BB CC DD
\* 11 22 33 44), continued with the second word up to fw_size.
HostWord(i) == IF i = 0 THEN << 170, 187, 204, 221 >> ELSE << 17, 34, 51, 68 >>
\* the len bytes the host sends for the image offset off
HostBytes(off, len) ==
  WordsToBytes([i \in 1..(len \div 4) |-> HostWord((off \div 4) + i - 1)])

\* enabled transports (INTERFACE_USB, INTERFACE_USART)
Interfaces == {USB, USART}

\* const encryption_key_t key = { .b = AES_KEY }: a provisioned key, or the
\* default all-zero key
AES_KEY == << << 222, 173, 190, 239 >>, << 1, 2, 3, 4 >>, ZERO_WORD, << 0, 0, 0, 9 >> >>
ZeroKey == << ZERO_WORD, ZERO_WORD, ZERO_WORD, ZERO_WORD >>

\* AES128_CBC_decrypt_buffer(out, in, 16, key, iv) on one 16-byte block of
\* four words: the block cipher's inverse under key, then the CBC xor with iv.
\* The block cipher is a stand-in that xors the key.
AES128_CBC_decrypt_buffer(in, k, v) ==
  [j \in 1..4 |-> Xor32(Xor32(in[j], k[j]), v[j])]

\* What the host sends for an encrypted upload: the initialisation vector, and
\* the header of lines 609-614 followed by the image, encrypted under AES_KEY.
HostIV == << << 1, 1, 1, 1 >>, << 2, 2, 2, 2 >>, << 3, 3, 3, 3 >>, << 4, 4, 4, 4 >> >>
\* header.num_to_flash of the host's file
HostNumToFlash == 16
HostPlainWord(i) ==
  CASE i = 0 -> Word(HostNumToFlash)
    [] i = 1 -> crc32(HostBytes(0, HostNumToFlash), ZERO_WORD)
    [] i \in {2, 3} -> ZERO_WORD
    [] OTHER -> HostWord(i - 4)

\* cipher block b (0-based) of the host's file, CBC-chained from HostIV
RECURSIVE HostCipherBlock(_)
HostCipherBlock(b) ==
  LET prev == IF b = 0 THEN HostIV ELSE HostCipherBlock(b - 1)
  IN  [j \in 1..4 |-> Xor32(Xor32(HostPlainWord(4 * b + j - 1), AES_KEY[j]), prev[j])]

HostCipher == [b \in 0..(FwWords \div 4) |-> HostCipherBlock(b)]

\* the len bytes, as words, the host sends with PROG_MULTI_ENCRYPTED when the
\* device is at address off: the file from its start, or from where it left
HostCipherWords(off, len) ==
  LET first == IF off = 0 THEN 0 ELSE (off \div 4) + 4
  IN  [i \in 1..(len \div 4) |->
         LET w == first + i - 1
         IN  IF w \div 4 \in DOMAIN HostCipher THEN HostCipher[w \div 4][(w % 4) + 1]
             ELSE ZERO_WORD]

----------------------------------------------------------------------------
VARIABLES
  returned,       \* "no": bootloader() is in its loop; "timeout" / "boot": it returned
  bl_type,        \* static uint8_t bl_type
  last_input,     \* static uint8_t last_input
  timeout,        \* the parameter timeout of bootloader()
  timer_bl_wait,  \* timer[TIMER_BL_WAIT]
  address,        \* uint32_t address
  first_word,     \* uint32_t first_word
  flash,          \* the application region, one word per element
  flash_buffer,   \* static flash_buffer_t flash_buffer, its first words
  key,            \* the key region in flash
  key_state,      \* static int8_t key_state
  iv,             \* static uint8_t iv[16], as four words
  num_to_flash,   \* uint32_t num_to_flash
  crc32_sum,      \* uint32_t crc32_sum
  silicon_bad,    \* what check_silicon() returns on this board
  bad_cells,      \* the defective words of the flash part: an erase or a write
                  \* of one may not take
  host_ports,     \* the transports the host sends on
  entry_timeout,  \* the timeout bootloader() was called with
  tx,             \* bytes the last pass of the loop wrote to each transport
  cmd,            \* the last pass of the loop: opcode, argument, status sent
  accepted,       \* a command has taken the accept path (lines 1270-1281)
  boot_wrote,     \* PROTO_BOOT has issued flash_func_write_word(0, first_word)
  flash_unlocked, \* flash_unlock() has been called and flash_lock() not since
  erase_ok,       \* a PROTO_CHIP_ERASE of this session has left through break
  head,           \* static unsigned head
  tail,           \* static unsigned tail
  rx_buf,         \* static uint8_t rx_buf[]
  get_pc,         \* where the foreground stands in buf_get()
  get_ret,        \* int ret of buf_get()
  get_t,          \* the value of tail buf_get() holds in a register
  put_log,        \* the bytes buf_put() has stored, in order
  get_log,        \* the bytes buf_get() has returned, in order
  put_calls,      \* the number of calls of buf_put()
  timer_cin,      \* timer[TIMER_CIN]
  rd,             \* the read of cin_wait() the handler stands in
  op_input,       \* the transport that delivered the opcode of the command
  srcs            \* the transports that delivered bytes of the command

vars == << returned, bl_type, last_input, timeout, timer_bl_wait, address,
           first_word, flash, flash_buffer, key, key_state, iv, num_to_flash,
           crc32_sum, silicon_bad, bad_cells, host_ports, entry_timeout, tx, cmd,
           accepted, boot_wrote, flash_unlocked, erase_ok, head, tail, rx_buf,
           get_pc, get_ret, get_t, put_log, get_log, put_calls, timer_cin, rd,
           op_input, srcs >>

flashVars == << address, first_word, flash, flash_buffer, key, boot_wrote >>
encVars == << iv, num_to_flash, crc32_sum >>
boardVars == << key_state, silicon_bad, bad_cells, host_ports, entry_timeout >>
lockVars == << flash_unlocked, erase_ok >>
ringVars == << head, tail, rx_buf, get_pc, get_ret, get_t, put_log, get_log, put_calls >>
cinVars == << timer_cin, rd, op_input, srcs >>

\* number of words of flash_buffer the model keeps (payloads are at most this long)
BufWords == 8

NoTx == [usb |-> << >>, uart |-> << >>]

\* a validate_key() that finds every key intact
validate_key_intact(k) == 0

\* validate_key(): 1 iff every word of the key is zero
validate_key(k) == IF \A i \in 1..4 : k[i] = ZERO_WORD THEN 1 ELSE 0

\* the number of elements of rx_buf, scaled down from 256
RxBufSize == 4
\* buf_get() is not running
NoGet == "call"
\* no cin_wait() is in progress
NoRead == [op |-> 0, idx |-> 0]

\* The statics and the flash controller at reset: the ring buffer is empty,
\* no read is in progress, the flash is locked.
Reset ==
  /\ flash_unlocked = FALSE
  /\ erase_ok = FALSE
  /\ head = 0
  /\ tail = 0
  /\ rx_buf = [i \in 0..(RxBufSize - 1) |-> 0]
  /\ get_pc = NoGet
  /\ get_ret = -1
  /\ get_t = 0
  /\ put_log = << >>
  /\ get_log = << >>
  /\ put_calls = 0
  /\ timer_cin = 0
  /\ rd = NoRead
  /\ op_input = NONE
  /\ srcs = {}

\* The state bootloader() has built when it enters its loop (lines 596-632),
\* for an erased application region.
Entry ==
  /\ Reset
  /\ returned = "no"
  /\ entry_timeout = timeout
  /\ bl_type = NONE
  /\ last_input = NONE
  /\ timer_bl_wait = timeout
  /\ address = fw_size
  /\ first_word = ERASED_WORD
  /\ flash = [i \in 1..FwWords |-> ERASED_WORD]
  /\ flash_buffer = [i \in 1..BufWords |-> ZERO_WORD]
  /\ key \in {ZeroKey, AES_KEY}
  /\ key_state = validate_key(key)
  /\ iv = << ZERO_WORD, ZERO_WORD, ZERO_WORD, ZERO_WORD >>
  /\ num_to_flash = ZERO_WORD
  /\ crc32_sum = ZERO_WORD
  /\ silicon_bad \in BOOLEAN
  /\ tx = NoTx
  /\ cmd = [op |-> 0, arg |-> 0, status |-> NO_REPLY]
  /\ accepted = FALSE
  /\ boot_wrote = FALSE

\* the defective words tried: none, or one of these
BadCells == { {}, {0}, {1}, {SectorWords} }

\* bootloader(0) with the host on USB and a flash part that may have a
\* defective word
InitFlash ==
  /\ timeout = 0
  /\ host_ports = {USB}
  /\ bad_cells \in BadCells
  /\ Entry

\* bootloader(timeout) with or without a timeout, the host on both transports
InitIO ==
  /\ timeout \in {0, MaxTimeout}
  /\ host_ports = Interfaces
  /\ bad_cells = {}
  /\ Entry

----------------------------------------------------------------------------
\* Transport multiplexer

\* cin(): the transports a byte can come from
Sources(bt) == IF bt = NONE THEN host_ports ELSE host_ports \cap {bt}

\* cout() that writes to every transport once one is chosen
cout_every(bt, t, buf) ==
  [usb  |-> IF bt # NONE THEN t.usb \o buf ELSE t.usb,
   uart |-> IF bt # NONE THEN t.uart \o buf ELSE t.uart]

\* cout(): t with buf written to the transport bt names, and to no other
cout(bt, t, buf) ==
  [usb  |-> IF bt = USB THEN t.usb \o buf ELSE t.usb,
   uart |-> IF bt = USART THEN t.uart \o buf ELSE t.uart]

\* lines 1274-1277: the port of the first valid command
lock(bt, li) == IF bt = NONE THEN li ELSE bt

\* the opcode wait loop passes its check (lines 644-646) and reads a byte
Waiting == returned = "no" /\ ~(timeout # 0 /\ timer_bl_wait = 0)

\* sys_tick_handler() while a handler runs.  Ticks that leave the timer above
\* zero commute with the handler and are those of Tick; the one that takes the
\* timer to zero after the loop's check has passed is taken here.
Elapse ==
  \E d \in {0} \cup (IF timer_bl_wait = 1 THEN {1} ELSE {}) :
     timer_bl_wait' = timer_bl_wait - d

\* the accept path without line 1272: the timeout stays armed
accept_armed(op, arg, data, li) ==
  /\ timeout' = timeout
  /\ last_input' = li
  /\ bl_type' = lock(bl_type, li)
  /\ tx' = cout(bl_type', cout(bl_type, NoTx, data), << PROTO_INSYNC, PROTO_OK >>)
  /\ cmd' = [op |-> op, arg |-> arg, status |-> PROTO_OK]
  /\ accepted' = TRUE
  /\ returned' = returned
  /\ Elapse

\* lines 1270-1281: the handler left its switch with break
accept(op, arg, data, li) ==
  /\ timeout' = 0
  /\ last_input' = li
  /\ bl_type' = lock(bl_type, li)
  /\ tx' = cout(bl_type', cout(bl_type, NoTx, data), << PROTO_INSYNC, PROTO_OK >>)
  /\ cmd' = [op |-> op, arg |-> arg, status |-> PROTO_OK]
  /\ accepted' = TRUE
  /\ returned' = returned
  /\ Elapse

\* cmd_bad, cmd_fail, bad_silicon, bad_key (lines 1282-1302)
reject(op, arg, status, li) ==
  /\ UNCHANGED << timeout, bl_type, accepted, returned >>
  /\ last_input' = li
  /\ tx' = cout(bl_type, NoTx, << PROTO_INSYNC, status >>)
  /\ cmd' = [op |-> op, arg |-> arg, status |-> status]
  /\ Elapse

\* lines 1028-1033 of PROTO_BOOT: sync_response(), delay(100), return
BootReturn(li) ==
  /\ UNCHANGED << timeout, bl_type, accepted >>
  /\ last_input' = li
  /\ tx' = cout(bl_type, NoTx, << PROTO_INSYNC, PROTO_OK >>)
  /\ cmd' = [op |-> PROTO_BOOT, arg |-> 0, status |-> PROTO_OK]
  /\ returned' = "boot"
  /\ Elapse

----------------------------------------------------------------------------
\* a tick handler that leaves TIMER_BL_WAIT as it is
Tick_stopped ==
  /\ returned = "no"
  /\ timer_bl_wait > 0
  /\ UNCHANGED vars

\* sys_tick_handler() while the loop polls and no byte comes (lines 364-367)
Tick ==
  /\ returned = "no"
  /\ timer_bl_wait > 0
  /\ timer_bl_wait' = timer_bl_wait - 1
  /\ UNCHANGED << returned, bl_type, last_input, timeout, tx, cmd, accepted >>
  /\ UNCHANGED << flashVars, encVars, boardVars, lockVars, ringVars, cinVars >>

\* lines 644-646: the timeout is armed and the timer has expired
InactivityReturn ==
  /\ returned = "no"
  /\ timeout # 0 /\ timer_bl_wait = 0
  /\ returned' = "timeout"
  /\ UNCHANGED << bl_type, last_input, timeout, timer_bl_wait, tx, cmd, accepted >>
  /\ UNCHANGED << flashVars, encVars, boardVars, lockVars, ringVars, cinVars >>

\* default: continue (lines 1266-1267), for a byte that is no opcode
UnknownOpcode ==
  /\ Waiting
  /\ \E li \in Sources(bl_type) : last_input' = li
  /\ cmd' = [op |-> 0, arg |-> 0, status |-> NO_REPLY]
  /\ tx' = NoTx
  /\ Elapse
  /\ UNCHANGED << returned, bl_type, timeout, accepted >>
  /\ UNCHANGED << flashVars, encVars, boardVars, lockVars, ringVars, cinVars >>

\* case PROTO_GET_SYNC (lines 663-670)
GetSync ==
  /\ Waiting
  /\ \E li \in Sources(bl_type), eoc \in BOOLEAN :
       IF eoc
       THEN accept(PROTO_GET_SYNC, 0, << >>, li)
       ELSE reject(PROTO_GET_SYNC, 0, PROTO_INVALID, li)
  /\ UNCHANGED << flashVars, encVars, boardVars, lockVars, ringVars, cinVars >>

\* flash_func_read_word(offset) of the application region
flash_func_read_word(fl, off) == fl[(off \div 4) + 1]

\* the reply data of PROTO_GET_DEVICE for arg (lines 694-722)
GetDeviceData(fl, arg) ==
  CASE arg = PROTO_DEVICE_BL_REV -> Word(BL_PROTOCOL_VERSION)
    [] arg = PROTO_DEVICE_BOARD_ID -> Word(board_type)
    [] arg = PROTO_DEVICE_BOARD_REV -> Word(board_rev)
    [] arg = PROTO_DEVICE_FW_SIZE -> Word(fw_size)
    [] arg = PROTO_DEVICE_VEC_AREA ->
         WordsToBytes([p \in 1..4 |-> flash_func_read_word(fl, (p + 6) * 4)])

\* case PROTO_GET_DEVICE (lines 682-724)
GetDevice ==
  /\ Waiting
  /\ \E li \in Sources(bl_type),
        arg \in 0..5, eoc \in BOOLEAN :
       IF eoc /\ arg \in 1..5
       THEN accept(PROTO_GET_DEVICE, arg, GetDeviceData(flash, arg), li)
       ELSE reject(PROTO_GET_DEVICE, arg, PROTO_INVALID, li)
  /\ UNCHANGED << flashVars, encVars, boardVars, lockVars, ringVars, cinVars >>

----------------------------------------------------------------------------
\* Flash driver.  The region after flash_func_write_word(off, v): programming
\* clears bits and sets none, so the word becomes old & v; on a defective word
\* the write may also not take, or take in its low half-word only; on a locked
\* part it may not take.
flash_func_write_word(fl, off, v) ==
  LET i   == (off \div 4) + 1
      old == fl[i]
  IN  { [fl EXCEPT ![i] = r] :
          r \in { And32(old, v) } \cup
                (IF (i - 1) \in bad_cells
                 THEN { old, And32(old, << v[1], v[2], 255, 255 >>) } ELSE {}) \cup
                (IF flash_unlocked THEN {} ELSE { old }) }

\* flash_func_phy_write_word(address, v) on a word of the key region
flash_func_phy_write_word(old, v) == And32(old, v)

\* the words of sector i (0-based) of the application region
SectorOf(i) == (i * SectorWords + 1)..((i + 1) * SectorWords)
Sectors == 0..(NSectors - 1)

\* The region after flash_func_erase_sector(i) for every sector (lines
\* 753-755): every sector is erased, but that of a defective word may be left
\* as it was.
EraseResults(fl) ==
  { [w \in 1..FwWords |->
       IF \E i \in done : w \in SectorOf(i) THEN ERASED_WORD ELSE fl[w]]
    : done \in { Sectors } \cup
               { Sectors \ {i} : i \in { j \in Sectors :
                                          \E b \in bad_cells : (b + 1) \in SectorOf(j) } } }

\* lines 760-766: the offset at which the erase verify stops, fw_size if none
RECURSIVE VerifyErase(_, _)
VerifyErase(fl, a) ==
  IF a >= fw_size THEN fw_size
  ELSE IF flash_func_read_word(fl, a) # ERASED_WORD THEN a
  ELSE VerifyErase(fl, a + 4)

\* a write loop without the read-back verify
RECURSIVE WriteLoop_unverified(_, _, _, _)
WriteLoop_unverified(fl, a, ws, i) ==
  IF i > Len(ws) THEN { [flash |-> fl, address |-> a, ok |-> TRUE] }
  ELSE UNION { WriteLoop_unverified(fl2, a + 4, ws, i + 1)
             : fl2 \in flash_func_write_word(fl, a, ws[i]) }

\* a write loop that counts the words without programming them
WriteLoop_counting(fl, a, ws, i) ==
  { [flash |-> fl, address |-> a + 4 * (Len(ws) + 1 - i), ok |-> TRUE] }

\* The write loop of PROG_MULTI (lines 837-848) and PROG_MULTI_ENCRYPTED
\* (lines 1171-1182) from word i of ws: the flash and address it leaves, and
\* whether it ran to its end or left through cmd_fail.
RECURSIVE WriteLoop(_, _, _, _)
WriteLoop(fl, a, ws, i) ==
  IF i > Len(ws) THEN { [flash |-> fl, address |-> a, ok |-> TRUE] }
  ELSE UNION { IF flash_func_read_word(fl2, a) = ws[i]
               THEN WriteLoop(fl2, a + 4, ws, i + 1)
               ELSE { [flash |-> fl2, address |-> a, ok |-> FALSE] }
             : fl2 \in flash_func_write_word(fl, a, ws[i]) }

\* a zero_key() that stops after the first word
zero_key_first(k) == [k EXCEPT ![1] = ZERO_WORD]

\* zero_key() (lines 578-590): every nonzero word of the key is written 0
zero_key(k) ==
  [i \in 1..4 |-> IF k[i] # ZERO_WORD THEN flash_func_phy_write_word(k[i], ZERO_WORD)
                  ELSE k[i]]

\* a first-word deferral that leaves the word in the buffer
defer_first_word_kept(buf, i) == buf

\* lines 832 and 1160: flash_buffer.w[i] = 0xffffffff (i counted from 0)
defer_first_word(buf, i) == [buf EXCEPT ![i + 1] = ERASED_WORD]

\* flash_buffer with the bytes c stored from flash_buffer.c[0] on
StoreBytes(buf, c) ==
  [i \in 1..BufWords |-> IF i <= Len(c) \div 4 THEN WordOf(c, i - 1) ELSE buf[i]]

\* case PROTO_CHIP_ERASE (lines 732-770)
ChipErase ==
  /\ Waiting
  /\ UNCHANGED << first_word, flash_buffer, key, boot_wrote, encVars, boardVars, ringVars, cinVars >>
  /\ \E li \in Sources(bl_type), eoc \in BOOLEAN :
       IF ~eoc
       THEN /\ reject(PROTO_CHIP_ERASE, 0, PROTO_INVALID, li)
            /\ UNCHANGED << flash, address, lockVars >>
       ELSE IF silicon_bad
       THEN /\ reject(PROTO_CHIP_ERASE, 0, PROTO_BAD_SILICON_REV, li)
            /\ UNCHANGED << flash, address, lockVars >>
       ELSE \E fl \in EraseResults(flash) :
              /\ flash_unlocked' = TRUE
              /\ flash' = fl
              /\ IF VerifyErase(fl, 0) < fw_size
                 THEN /\ address' = VerifyErase(fl, 0)
                      /\ UNCHANGED erase_ok
                      /\ reject(PROTO_CHIP_ERASE, 0, PROTO_FAILED, li)
                 ELSE /\ address' = 0
                      /\ erase_ok' = TRUE
                      /\ accept(PROTO_CHIP_ERASE, 0, << >>, li)

\* the length bytes the host sends with PROG_MULTI
ProgLens == {0, 3, 4, 8}

\* the ways a frame with data can end early: the host stops sending before
\* the first data byte ("data") or sends no EOC ("eoc")
Stalls == {"none", "data", "eoc"}

\* case PROTO_PROG_MULTI (lines 779-850) for the frame with length byte arg
\* that comes in on li
ProgMultiFrame(li, arg, stall) ==
  /\ Waiting
  /\ UNCHANGED << boot_wrote, encVars, boardVars, lockVars, ringVars, cinVars >>
  /\   LET buf1 == StoreBytes(flash_buffer, HostBytes(address, arg))
           buf2 == defer_first_word(buf1, 0)
           ws   == [i \in 1..(arg \div 4) |-> IF address = 0 THEN buf2[i] ELSE buf1[i]]
       IN
       IF arg % 4 # 0 \/ address + arg > fw_size \/ arg > 256
          \/ (stall = "data" /\ arg > 0)
       THEN /\ reject(PROTO_PROG_MULTI, arg, PROTO_INVALID, li)
            /\ UNCHANGED << address, first_word, flash, flash_buffer, key >>
       ELSE IF stall # "none"
       THEN /\ reject(PROTO_PROG_MULTI, arg, PROTO_INVALID, li)
            /\ flash_buffer' = buf1
            /\ UNCHANGED << address, first_word, flash, key >>
       ELSE IF address = 0 /\ silicon_bad
       THEN /\ reject(PROTO_PROG_MULTI, arg, PROTO_BAD_SILICON_REV, li)
            /\ flash_buffer' = buf1
            /\ UNCHANGED << address, first_word, flash, key >>
       ELSE /\ IF address = 0
               THEN /\ key' = zero_key(key)
                    /\ first_word' = buf1[1]
                    /\ flash_buffer' = buf2
               ELSE /\ flash_buffer' = buf1
                    /\ UNCHANGED << key, first_word >>
            /\ \E res \in WriteLoop(flash, address, ws, 1) :
                 /\ flash' = res.flash
                 /\ address' = res.address
                 /\ IF res.ok
                    THEN accept(PROTO_PROG_MULTI, arg, << >>, li)
                    ELSE reject(PROTO_PROG_MULTI, arg, PROTO_FAILED, li)

\* case PROTO_PROG_MULTI (lines 779-850)
ProgMulti ==
  \E li \in Sources(bl_type), arg \in ProgLens, stall \in Stalls :
     ProgMultiFrame(li, arg, stall)

\* a GET_CRC loop that sums the words as flash holds them
CrcFrom_physical(fl, fw, p, end, sum) ==
  crc32(WordsToBytes([i \in 1..((end - p) \div 4) |->
                        flash_func_read_word(fl, p + 4 * (i - 1))]), sum)

\* the loop of PROTO_GET_CRC (lines 865-878): the sum from offset p on
RECURSIVE CrcFrom(_, _, _, _, _)
CrcFrom(fl, fw, p, end, sum) ==
  IF p >= end \/ sum = << >> THEN sum
  ELSE CrcFrom(fl, fw, p + 4, end,
               crc32(IF p = 0 /\ fw # ERASED_WORD THEN fw
                     ELSE flash_func_read_word(fl, p), sum))

\* case PROTO_GET_CRC (lines 857-881)
GetCrc ==
  /\ Waiting
  /\ UNCHANGED << flashVars, encVars, boardVars, lockVars, ringVars, cinVars >>
  /\ LET sum == CrcFrom(flash, first_word, 0, fw_size, ZERO_WORD) IN
     \E li \in Sources(bl_type), eoc \in BOOLEAN :
       IF eoc
       THEN accept(PROTO_GET_CRC, 0, sum, li)
       ELSE reject(PROTO_GET_CRC, 0, PROTO_INVALID, li)

\* case PROTO_BOOT (lines 1009-1033)
Boot ==
  /\ Waiting
  /\ UNCHANGED << address, flash_buffer, key, encVars, boardVars, lockVars, ringVars, cinVars >>
  /\ \E li \in Sources(bl_type), eoc \in BOOLEAN :
       IF ~eoc
       THEN /\ reject(PROTO_BOOT, 0, PROTO_INVALID, li)
            /\ UNCHANGED << flash, first_word, boot_wrote >>
       ELSE IF first_word # ERASED_WORD
       THEN \E fl \in flash_func_write_word(flash, 0, first_word) :
              /\ flash' = fl
              /\ boot_wrote' = TRUE
              /\ IF flash_func_read_word(fl, 0) # first_word
                 THEN /\ reject(PROTO_BOOT, 0, PROTO_FAILED, li)
                      /\ UNCHANGED first_word
                 ELSE /\ first_word' = ERASED_WORD
                      /\ BootReturn(li)
       ELSE /\ BootReturn(li)
            /\ UNCHANGED << flash, first_word, boot_wrote >>

\* case PROTO_SET_IV (lines 1048-1065)
SetIv ==
  /\ Waiting
  /\ UNCHANGED << flashVars, num_to_flash, crc32_sum, boardVars, lockVars, ringVars, cinVars >>
  /\ \E li \in Sources(bl_type), stall \in Stalls :
       IF stall = "data"
       THEN /\ reject(PROTO_SET_IV, 0, PROTO_INVALID, li)
            /\ UNCHANGED iv
       ELSE /\ iv' = HostIV
            /\ IF stall = "eoc"
               THEN reject(PROTO_SET_IV, 0, PROTO_INVALID, li)
               ELSE accept(PROTO_SET_IV, 0, << >>, li)

\* The decrypt loop of lines 1124-1131 from block b of the n blocks in enc:
\* the flash_buffer and the iv it leaves.
RECURSIVE DecryptLoop(_, _, _, _, _, _)
DecryptLoop(buf, enc, k, v, b, n) ==
  IF b >= n THEN [buf |-> buf, iv |-> v]
  ELSE LET in  == [j \in 1..4 |-> enc[4 * b + j]]
           out == AES128_CBC_decrypt_buffer(in, k, v)
       IN  DecryptLoop([i \in 1..BufWords |->
                          IF i \in (4 * b + 1)..(4 * b + 4) THEN out[i - 4 * b]
                          ELSE buf[i]],
                       enc, k, in, b + 1, n)

\* num_to_flash > board_info.fw_size
ExceedsFwSize(n) == ~Below65536(n) \/ LowValue(n) > fw_size

\* the length bytes the host sends with PROG_MULTI_ENCRYPTED
EncLens == {0, 16, 24, 32}

\* case PROTO_PROG_MULTI_ENCRYPTED (lines 1076-1184) for the frame with length
\* byte arg that comes in on li
ProgMultiEncryptedFrame(li, arg, stall) ==
  /\ Waiting
  /\ UNCHANGED << key, boot_wrote, boardVars, lockVars, ringVars, cinVars >>
  /\   LET enc   == HostCipherWords(address, arg)
           dec   == DecryptLoop(flash_buffer, enc, key, iv, 0, arg \div 16)
           start == IF address = 0 THEN 4 ELSE 0
           buf2  == IF address = 0 THEN defer_first_word(dec.buf, start)
                    ELSE dec.buf
           ntf   == IF address = 0 THEN dec.buf[1] ELSE num_to_flash
           ws    == [i \in 1..((arg \div 4) - start) |-> buf2[start + i]]
       IN
       IF arg % 4 # 0 \/ address + arg > fw_size \/ arg > 256
          \/ (stall = "data" /\ arg > 0) \/ stall = "eoc"
       THEN /\ reject(PROTO_PROG_MULTI_ENCRYPTED, arg, PROTO_INVALID, li)
            /\ UNCHANGED << address, first_word, flash, flash_buffer, encVars >>
       ELSE IF key_state # 0
       THEN /\ reject(PROTO_PROG_MULTI_ENCRYPTED, arg, PROTO_BAD_KEY, li)
            /\ UNCHANGED << address, first_word, flash, flash_buffer, encVars >>
       ELSE IF ~(arg % 16 = 0 /\ arg < PROTO_PROG_MULTI_MAX)
       THEN /\ reject(PROTO_PROG_MULTI_ENCRYPTED, arg, PROTO_INVALID, li)
            /\ UNCHANGED << address, first_word, flash, flash_buffer, encVars >>
       ELSE IF address = 0 /\ silicon_bad
       THEN /\ reject(PROTO_PROG_MULTI_ENCRYPTED, arg, PROTO_BAD_SILICON_REV, li)
            /\ flash_buffer' = dec.buf
            /\ iv' = dec.iv
            /\ UNCHANGED << address, first_word, flash, num_to_flash, crc32_sum >>
       ELSE /\ flash_buffer' = buf2
            /\ iv' = dec.iv
            /\ num_to_flash' = ntf
            /\ crc32_sum' = IF address = 0 THEN dec.buf[2] ELSE crc32_sum
            /\ first_word' = IF address = 0 THEN dec.buf[start + 1] ELSE first_word
            /\ IF ExceedsFwSize(ntf)
               THEN /\ reject(PROTO_PROG_MULTI_ENCRYPTED, arg, PROTO_FAILED, li)
                    /\ UNCHANGED << address, flash >>
               ELSE \E res \in WriteLoop(flash, address, ws, 1) :
                      /\ flash' = res.flash
                      /\ address' = res.address
                      /\ IF res.ok
                         THEN accept(PROTO_PROG_MULTI_ENCRYPTED, arg, << >>, li)
                         ELSE reject(PROTO_PROG_MULTI_ENCRYPTED, arg, PROTO_FAILED, li)

\* case PROTO_PROG_MULTI_ENCRYPTED (lines 1076-1184)
ProgMultiEncrypted ==
  \E li \in Sources(bl_type), arg \in EncLens, stall \in Stalls :
     ProgMultiEncryptedFrame(li, arg, stall)

\* case PROTO_CHECK_CRC (lines 1203-1237)
CheckCrc ==
  /\ Waiting
  /\ UNCHANGED << flashVars, encVars, boardVars, lockVars, ringVars, cinVars >>
  /\ \E li \in Sources(bl_type), eoc \in BOOLEAN :
       IF ~eoc
       THEN reject(PROTO_CHECK_CRC, 0, PROTO_INVALID, li)
       ELSE IF ExceedsFwSize(num_to_flash)
       THEN reject(PROTO_CHECK_CRC, 0, PROTO_FAILED, li)
       ELSE IF CrcFrom(flash, first_word, 0, LowValue(num_to_flash), ZERO_WORD) # crc32_sum
       THEN reject(PROTO_CHECK_CRC, 0, PROTO_FAILED, li)
       ELSE accept(PROTO_CHECK_CRC, 0, << >>, li)

\* case PROTO_CHECK_KEY (lines 1247-1264)
CheckKey ==
  /\ Waiting
  /\ UNCHANGED << flashVars, encVars, boardVars, lockVars, ringVars, cinVars >>
  /\ \E li \in Sources(bl_type), eoc \in BOOLEAN :
       IF ~eoc
       THEN reject(PROTO_CHECK_KEY, 0, PROTO_INVALID, li)
       ELSE IF key_state # 0
       THEN reject(PROTO_CHECK_KEY, 0, PROTO_BAD_KEY, li)
       ELSE accept(PROTO_CHECK_KEY, 0, << >>, li)

----------------------------------------------------------------------------
\* Boot delay (builds with BOOT_DELAY_ADDRESS).  The board's signature words,
\* 0x92c2ecff and 0xc5057d5d in memory order, their offset in the application
\* region, and the largest delay.
BOOT_DELAY_ADDRESS == 8
BOOT_DELAY_SIGNATURE1 == << 255, 236, 194, 146 >>
BOOT_DELAY_SIGNATURE2 == << 93, 125, 5, 197 >>
BOOT_DELAY_MAX == 30

\* the delay bytes the host sends
DelayBytes == {0, 5, BOOT_DELAY_MAX, BOOT_DELAY_MAX + 1}

\* line 994: (BOOT_DELAY_SIGNATURE1 & 0xFFFFFF00) | boot_delay
DelayValue(boot_delay) ==
  << boot_delay, BOOT_DELAY_SIGNATURE1[2], BOOT_DELAY_SIGNATURE1[3],
     BOOT_DELAY_SIGNATURE1[4] >>

\* lines 986-990: both signature words are in place
SignatureMatches(fl) ==
  /\ flash_func_read_word(fl, BOOT_DELAY_ADDRESS) = BOOT_DELAY_SIGNATURE1
  /\ flash_func_read_word(fl, BOOT_DELAY_ADDRESS + 4) = BOOT_DELAY_SIGNATURE2

\* case PROTO_SET_DELAY (lines 962-1001) for the frame with delay byte v that
\* comes in on li
SetDelayFrame(li, v, stall) ==
  /\ Waiting
  /\ UNCHANGED << address, first_word, flash_buffer, key, boot_wrote >>
  /\ UNCHANGED << encVars, boardVars, lockVars, ringVars, cinVars >>
  /\ IF stall = "data"
     THEN /\ reject(PROTO_SET_DELAY, 0, PROTO_INVALID, li)
          /\ UNCHANGED flash
     ELSE IF v > BOOT_DELAY_MAX \/ stall = "eoc"
     THEN /\ reject(PROTO_SET_DELAY, v, PROTO_INVALID, li)
          /\ UNCHANGED flash
     ELSE IF ~SignatureMatches(flash)
     THEN /\ reject(PROTO_SET_DELAY, v, PROTO_INVALID, li)
          /\ UNCHANGED flash
     ELSE \E fl \in flash_func_write_word(flash, BOOT_DELAY_ADDRESS, DelayValue(v)) :
            /\ flash' = fl
            /\ IF flash_func_read_word(fl, BOOT_DELAY_ADDRESS) # DelayValue(v)
               THEN reject(PROTO_SET_DELAY, v, PROTO_FAILED, li)
               ELSE accept(PROTO_SET_DELAY, v, << >>, li)

\* case PROTO_SET_DELAY (lines 962-1001)
SetDelay ==
  \E li \in Sources(bl_type), v \in DelayBytes, stall \in Stalls :
     SetDelayFrame(li, v, stall)

NextFlash ==
  \/ GetSync
  \/ ChipErase
  \/ ProgMulti
  \/ GetCrc
  \/ Boot

NextEnc ==
  \/ ChipErase
  \/ Boot
  \/ SetIv
  \/ ProgMultiEncrypted
  \/ CheckCrc
  \/ CheckKey

NextIO ==
  \/ Tick
  \/ InactivityReturn
  \/ UnknownOpcode
  \/ GetSync
  \/ GetDevice
  \/ ChipErase
  \/ ProgMulti
  \/ Boot

SpecFlash == InitFlash /\ [][NextFlash]_vars

InitEnc ==
  /\ timeout = 0
  /\ host_ports = {USB}
  /\ bad_cells \in BadCells
  /\ Entry

SpecEnc == InitEnc /\ [][NextEnc]_vars

SpecIO == InitIO /\ [][NextIO]_vars

\* A host that uploads one word at a time unencrypted and one block at a time
\* encrypted, in any order, in complete frames.
KeyProgLen == 4
KeyEncLen == 16
UploadPlain ==
  \E li \in Sources(bl_type) : ProgMultiFrame(li, KeyProgLen, "none")
UploadEncrypted ==
  \E li \in Sources(bl_type) : ProgMultiEncryptedFrame(li, KeyEncLen, "none")

NextKey ==
  \/ ChipErase
  \/ UploadPlain
  \/ UploadEncrypted
  \/ CheckKey

\* bootloader(0) with the host on USB and a healthy flash part
InitKey ==
  /\ timeout = 0
  /\ host_ports = {USB}
  /\ bad_cells = {}
  /\ Entry

SpecKey == InitKey /\ [][NextKey]_vars

\* The session of a board with a boot delay: entered with an application in
\* flash that carries the signature, or with an erased region, on a part whose
\* first signature word may be defective.
AppWithSignature ==
  [i \in 1..FwWords |->
     IF 4 * (i - 1) = BOOT_DELAY_ADDRESS THEN BOOT_DELAY_SIGNATURE1
     ELSE IF 4 * (i - 1) = BOOT_DELAY_ADDRESS + 4 THEN BOOT_DELAY_SIGNATURE2
     ELSE HostWord(i - 1)]

InitDelay ==
  /\ Reset
  /\ timeout \in {0, MaxTimeout}
  /\ host_ports = Interfaces
  /\ bad_cells \in { {}, {BOOT_DELAY_ADDRESS \div 4} }
  /\ returned = "no"
  /\ entry_timeout = timeout
  /\ bl_type = NONE
  /\ last_input = NONE
  /\ timer_bl_wait = timeout
  /\ address = fw_size
  /\ first_word = ERASED_WORD
  /\ flash \in { AppWithSignature, [i \in 1..FwWords |-> ERASED_WORD] }
  /\ flash_buffer = [i \in 1..BufWords |-> ZERO_WORD]
  /\ key = ZeroKey
  /\ key_state = validate_key(key)
  /\ iv = << ZERO_WORD, ZERO_WORD, ZERO_WORD, ZERO_WORD >>
  /\ num_to_flash = ZERO_WORD
  /\ crc32_sum = ZERO_WORD
  /\ silicon_bad = FALSE
  /\ tx = NoTx
  /\ cmd = [op |-> 0, arg |-> 0, status |-> NO_REPLY]
  /\ accepted = FALSE
  /\ boot_wrote = FALSE

NextDelay ==
  \/ Tick
  \/ InactivityReturn
  \/ GetSync
  \/ ChipErase
  \/ SetDelay

SpecDelay == InitDelay /\ [][NextDelay]_vars

----------------------------------------------------------------------------
\* The session on a board that holds an application: the image the host is
\* about to upload again, as after an update that is repeated.

OldApp == [i \in 1..FwWords |-> HostWord(i - 1)]

InitReflash ==
  /\ Reset
  /\ timeout = 0
  /\ host_ports = {USB}
  /\ bad_cells \in BadCells
  /\ returned = "no"
  /\ entry_timeout = timeout
  /\ bl_type = NONE
  /\ last_input = NONE
  /\ timer_bl_wait = timeout
  /\ address = fw_size
  /\ first_word = ERASED_WORD
  /\ flash = OldApp
  /\ flash_buffer = [i \in 1..BufWords |-> ZERO_WORD]
  /\ key \in {ZeroKey, AES_KEY}
  /\ key_state = validate_key(key)
  /\ iv = << ZERO_WORD, ZERO_WORD, ZERO_WORD, ZERO_WORD >>
  /\ num_to_flash = ZERO_WORD
  /\ crc32_sum = ZERO_WORD
  /\ silicon_bad = FALSE
  /\ tx = NoTx
  /\ cmd = [op |-> 0, arg |-> 0, status |-> NO_REPLY]
  /\ accepted = FALSE
  /\ boot_wrote = FALSE

NextReflash ==
  \/ GetSync
  \/ ChipErase
  \/ ProgMulti
  \/ Boot

SpecReflash == InitReflash /\ [][NextReflash]_vars

----------------------------------------------------------------------------
\* Receive ring buffer (lines 264-295).  buf_put() runs in the receive
\* interrupt, which the foreground cannot preempt, so it is one step;
\* buf_get() runs in the foreground and the interrupt can come between any two
\* of its memory accesses.  head and tail are not volatile: after its test
\* the build may load rx_buf[tail] and store tail in either order.

\* every variable of the session
sessionVars ==
  << returned, bl_type, last_input, timeout, timer_bl_wait, tx, cmd, accepted,
     flashVars, encVars, boardVars, lockVars >>

\* the calls of buf_put() followed, and the bytes the driver hands it
MaxPuts == 5
RxBytes == {17, 34}

\* (i + 1) % sizeof(rx_buf) (lines 276 and 291)
next_index(i) == (i + 1) % RxBufSize

\* a full test that never holds
buf_full_never(h, t) == FALSE

\* line 278: next == tail, there is no room for a byte
buf_full(h, t) == next_index(h) = t

\* buf_put(b) (lines 273-282)
buf_put ==
  /\ put_calls < MaxPuts
  /\ put_calls' = put_calls + 1
  /\ \E b \in RxBytes :
       IF ~buf_full(head, tail)
       THEN /\ rx_buf' = [rx_buf EXCEPT ![head] = b]
            /\ head' = next_index(head)
            /\ put_log' = Append(put_log, b)
       ELSE UNCHANGED << rx_buf, head, put_log >>
  /\ UNCHANGED << tail, get_pc, get_ret, get_t, get_log >>
  /\ UNCHANGED << sessionVars, cinVars >>

\* buf_get() is entered: int ret = -1 (line 287)
buf_get_call ==
  /\ get_pc = NoGet
  /\ get_pc' = "test"
  /\ get_ret' = -1
  /\ UNCHANGED << head, tail, rx_buf, get_t, put_log, get_log, put_calls >>
  /\ UNCHANGED << sessionVars, cinVars >>

\* line 289: if (tail != head); when they are equal buf_get() returns ret
buf_get_test ==
  /\ get_pc = "test"
  /\ IF tail # head
     THEN get_pc' = "body" /\ get_t' = tail
     ELSE get_pc' = NoGet /\ UNCHANGED get_t
  /\ UNCHANGED << head, tail, rx_buf, get_ret, put_log, get_log, put_calls >>
  /\ UNCHANGED << sessionVars, cinVars >>

\* line 290, ret = rx_buf[tail], before or after the store of line 291; the
\* later of the two is followed by the return of ret
buf_get_load ==
  /\ get_pc \in {"body", "stored"}
  /\ get_ret' = rx_buf[get_t]
  /\ IF get_pc = "body"
     THEN get_pc' = "loaded" /\ UNCHANGED get_log
     ELSE get_pc' = NoGet /\ get_log' = Append(get_log, rx_buf[get_t])
  /\ UNCHANGED << head, tail, rx_buf, get_t, put_log, put_calls >>
  /\ UNCHANGED << sessionVars, cinVars >>

\* line 291, tail = (tail + 1) % sizeof(rx_buf), after or before the load
buf_get_store ==
  /\ get_pc \in {"body", "loaded"}
  /\ tail' = next_index(get_t)
  /\ IF get_pc = "body"
     THEN get_pc' = "stored" /\ UNCHANGED get_log
     ELSE get_pc' = NoGet /\ get_log' = Append(get_log, get_ret)
  /\ UNCHANGED << head, rx_buf, get_ret, get_t, put_log, put_calls >>
  /\ UNCHANGED << sessionVars, cinVars >>

NextRing ==
  \/ buf_put
  \/ buf_get_call
  \/ buf_get_test
  \/ buf_get_load
  \/ buf_get_store

\* the receive path before any command byte is taken
InitRing ==
  /\ timeout = 0
  /\ host_ports = {USB}
  /\ bad_cells = {}
  /\ key = ZeroKey
  /\ silicon_bad = FALSE
  /\ Entry

SpecRing == InitRing /\ [][NextRing]_vars

----------------------------------------------------------------------------
\* The command loop byte by byte: every cin_wait() of a handler is a read of
\* its own, armed with the timeout of its call site, and ends with a byte from
\* a transport cin() polls or with TIMER_CIN at zero.  What a handler does
\* once its frame is complete is in the handler actions above; here it shows
\* by the reply it ends with.

\* the opcodes followed byte by byte
CinOps ==
  { PROTO_GET_SYNC, PROTO_GET_DEVICE, PROTO_CHIP_ERASE, PROTO_PROG_MULTI,
    PROTO_GET_CRC, PROTO_GET_OTP, PROTO_GET_SN, PROTO_SET_DELAY, PROTO_BOOT,
    PROTO_PROG_MULTI_ENCRYPTED }

\* the payload bytes of the PROG_MULTI and PROG_MULTI_ENCRYPTED frames followed
CinPayload == 4

\* the bytes a handler reads after its opcode, in order
frame(op) ==
  CASE op \in {PROTO_GET_DEVICE, PROTO_SET_DELAY} -> << "arg", "eoc" >>
    [] op \in {PROTO_GET_OTP, PROTO_GET_SN} ->
         << "arg", "arg", "arg", "arg", "eoc" >>
    [] op \in {PROTO_PROG_MULTI, PROTO_PROG_MULTI_ENCRYPTED} ->
         << "len" >> \o [i \in 1..CinPayload |-> "data"] \o << "eoc" >>
    [] OTHER -> << "eoc" >>

\* the handlers with wait_for_eoc(2) after a payload
cin_timeout_short_eoc(op, kind) ==
  CASE kind = "arg" -> IF op = PROTO_GET_DEVICE THEN 1000 ELSE 100
    [] kind = "len" -> 50
    [] kind = "data" -> 1000
    [] OTHER -> IF op = PROTO_BOOT THEN 1000 ELSE 2

\* the timeout each call site hands to cin_wait(), cin_word() or
\* wait_for_eoc()
cin_timeout(op, kind) ==
  CASE kind = "arg" -> IF op = PROTO_GET_DEVICE THEN 1000 ELSE 100
    [] kind = "len" -> 50
    [] kind = "data" -> 1000
    [] OTHER -> IF op = PROTO_BOOT THEN 1000
                ELSE IF op \in {PROTO_PROG_MULTI, PROTO_PROG_MULTI_ENCRYPTED}
                THEN 200 ELSE 2

\* the reads whose byte the handler checks at once: the EOC, the length of a
\* PROG_MULTI frame, the delay of SET_DELAY
checked(op, kind) ==
  kind \in {"eoc", "len"} \/ (op = PROTO_SET_DELAY /\ kind = "arg")

\* the replies a handler can end with once its frame is complete
replies(op) ==
  CASE op = PROTO_CHIP_ERASE ->
         { PROTO_OK, PROTO_FAILED, PROTO_BAD_SILICON_REV }
    [] op = PROTO_PROG_MULTI ->
         { PROTO_OK, PROTO_FAILED, PROTO_INVALID, PROTO_BAD_SILICON_REV }
    [] op = PROTO_PROG_MULTI_ENCRYPTED ->
         { PROTO_OK, PROTO_FAILED, PROTO_INVALID, PROTO_BAD_KEY,
           PROTO_BAD_SILICON_REV }
    [] op = PROTO_SET_DELAY -> { PROTO_OK, PROTO_FAILED, PROTO_INVALID }
    [] op = PROTO_BOOT -> { PROTO_OK, PROTO_FAILED }
    [] OTHER -> { PROTO_OK }

\* the variables the byte-level actions leave alone
cinFrame == << flashVars, encVars, boardVars, lockVars, ringVars >>

\* lines 649-651: cin_wait(0) of the opcode wait loop returns a byte, an
\* opcode, and the handler arms its first read
cin_opcode ==
  /\ Waiting
  /\ rd = NoRead
  /\ \E li \in Sources(bl_type), op \in CinOps :
       /\ last_input' = li
       /\ op_input' = li
       /\ srcs' = {li}
       /\ rd' = [op |-> op, idx |-> 1]
       /\ timer_cin' = cin_timeout(op, frame(op)[1])
       /\ cmd' = [op |-> op, arg |-> 0, status |-> NO_REPLY]
  /\ tx' = NoTx
  /\ UNCHANGED << returned, bl_type, timeout, timer_bl_wait, accepted >>
  /\ UNCHANGED cinFrame

\* sys_tick_handler() while cin_wait() polls (lines 364-367)
cin_tick ==
  /\ rd # NoRead
  /\ timer_cin > 0
  /\ timer_cin' = timer_cin - 1
  /\ UNCHANGED << rd, op_input, srcs >>
  /\ UNCHANGED << returned, bl_type, last_input, timeout, timer_bl_wait, tx,
                  cmd, accepted >>
  /\ UNCHANGED cinFrame

\* cin() inside cin_wait() returns a byte (lines 471-476): the handler goes
\* on to its next read, or rejects the byte, or has its frame and ends
cin_byte ==
  /\ rd # NoRead
  /\ \E li \in Sources(bl_type), good \in BOOLEAN :
       LET op == rd.op
           kind == frame(op)[rd.idx]
       IN  /\ good \/ checked(op, kind)
           /\ srcs' = srcs \cup {li}
           /\ UNCHANGED op_input
           /\ IF ~good
              THEN /\ reject(op, 0, PROTO_INVALID, li)
                   /\ rd' = NoRead
                   /\ UNCHANGED timer_cin
              ELSE IF rd.idx < Len(frame(op))
              THEN /\ rd' = [op |-> op, idx |-> rd.idx + 1]
                   /\ timer_cin' = cin_timeout(op, frame(op)[rd.idx + 1])
                   /\ last_input' = li
                   /\ UNCHANGED << returned, bl_type, timeout, timer_bl_wait,
                                   tx, cmd, accepted >>
              ELSE /\ rd' = NoRead
                   /\ UNCHANGED timer_cin
                   /\ \E status \in replies(op) :
                        IF status # PROTO_OK
                        THEN reject(op, 0, status, li)
                        ELSE IF op = PROTO_BOOT
                        THEN BootReturn(li)
                        ELSE accept(op, 0, << >>, li)
  /\ UNCHANGED cinFrame

\* cin_wait() returns -1 (lines 478-482): TIMER_CIN is at zero and no byte
\* came; every call site goes to cmd_bad
cin_expire ==
  /\ rd # NoRead
  /\ timer_cin = 0
  /\ reject(rd.op, 0, PROTO_INVALID, last_input)
  /\ rd' = NoRead
  /\ UNCHANGED << timer_cin, op_input, srcs >>
  /\ UNCHANGED cinFrame

NextCin ==
  \/ cin_opcode
  \/ cin_tick
  \/ cin_byte
  \/ cin_expire

\* bootloader(0) with the host on both transports
InitCin ==
  /\ timeout = 0
  /\ host_ports = Interfaces
  /\ bad_cells = {}
  /\ key = ZeroKey
  /\ silicon_bad = FALSE
  /\ Entry

SpecCin == InitCin /\ [][NextCin]_vars

\* The session with a fair tick: the SysTick interrupt keeps firing (lines
\* 359-367) and the opcode wait loop keeps polling its check (lines 642-651).
SpecIOFair == SpecIO /\ WF_vars(Tick) /\ WF_vars(InactivityReturn)

\* one pass of the loop through its switch, whatever the opcode
Handler ==
  \/ UnknownOpcode \/ GetSync \/ GetDevice \/ ChipErase \/ ProgMulti \/ GetCrc
  \/ Boot \/ SetIv \/ ProgMultiEncrypted \/ CheckCrc \/ CheckKey \/ SetDelay

\* the bytes the last pass wrote to transport p
TxOn(p) == IF p = USB THEN tx.usb ELSE tx.uart
\* the transport that is not p
Other(p) == IF p = USB THEN USART ELSE USB

----------------------------------------------------------------------------
\* C1 (as stated): in a session entered with an erased application region, as
\* long as no BOOT has been answered OK, word 0 of the region reads 0xFFFFFFFF.
C1_BootGate == returned # "boot" => flash_func_read_word(flash, 0) = ERASED_WORD

\* C1 (amended): word 0 of the region reads 0xFFFFFFFF as long as no BOOT has
\* reached its write of the pending first word, that is, as long as no BOOT
\* with a pending first word has been answered OK or FAILED.
C1_BootGateUntilBootWrites ==
  ~boot_wrote => flash_func_read_word(flash, 0) = ERASED_WORD

\* C1 witness: a payload has been programmed at address 0, its first word is
\* held back and a later word is in flash, and no BOOT has written yet.
C1_Witness ==
  /\ ~boot_wrote
  /\ first_word = HostWord(0)
  /\ flash_func_read_word(flash, 0) = ERASED_WORD
  /\ flash_func_read_word(flash, 4) = HostWord(1)
  /\ address = 8

\* C2: a PROG_MULTI answered OK leaves address at its value before plus len;
\* one answered INVALID, FAILED or BAD_SILICON leaves address as it was.
C2_AddressAccounting ==
  [][ProgMulti =>
       /\ cmd'.status = PROTO_OK => address' = address + cmd'.arg
       /\ cmd'.status \in {PROTO_INVALID, PROTO_FAILED, PROTO_BAD_SILICON_REV}
            => address' = address]_vars

\* C3: after a CHIP_ERASE answered OK, address is 0 and first_word is
\* 0xFFFFFFFF.
C3_EraseResets ==
  [][ChipErase /\ cmd'.status = PROTO_OK
       => address' = 0 /\ first_word' = ERASED_WORD]_vars

\* C4: a BOOT with a pending first word whose read-back of offset 0 differs is
\* answered FAILED, does not return and leaves first_word 0xFFFFFFFF; one whose
\* read-back matches is answered OK and returns.
C4_BootPending ==
  [][Boot /\ first_word # ERASED_WORD /\ cmd'.status # PROTO_INVALID =>
       IF flash_func_read_word(flash', 0) # first_word
       THEN /\ cmd'.status = PROTO_FAILED
            /\ returned' = "no"
            /\ first_word' = ERASED_WORD
       ELSE /\ cmd'.status = PROTO_OK
            /\ returned' = "boot"]_vars

\* C5: a command of any opcode that is answered FAILED or INVALID leaves
\* first_word as it was.
C5_FirstWordKept ==
  [][Handler /\ cmd'.status \in {PROTO_FAILED, PROTO_INVALID}
       => first_word' = first_word]_vars

\* C6: bl_type changes at most once, from NONE to USB or USART, and once it is
\* locked every byte a pass of the loop emits goes to the locked transport and
\* none to the other.
C6_TransportLock ==
  /\ [](bl_type # NONE => TxOn(Other(bl_type)) = << >>)
  /\ [][/\ bl_type # bl_type' => bl_type = NONE /\ bl_type' \in Interfaces
        /\ bl_type # NONE => TxOn(Other(bl_type))' = << >>]_vars

\* C6 witness: the session is locked to the USART and a GET_DEVICE has been
\* answered there, value bytes and status, with nothing sent on USB.
C6_Witness ==
  /\ bl_type = USART
  /\ cmd.op = PROTO_GET_DEVICE
  /\ cmd.status = PROTO_OK
  /\ tx.uart = GetDeviceData(flash, cmd.arg) \o << PROTO_INSYNC, PROTO_OK >>
  /\ tx.usb = << >>

\* C7: a GET_DEVICE with arg in 1..5 and EOC, the first command of the session
\* included, is answered with the value bytes followed by INSYNC OK on the
\* transport that delivered it.
C7_GetDeviceReply ==
  cmd.op = PROTO_GET_DEVICE /\ cmd.status = PROTO_OK
    => TxOn(last_input) = GetDeviceData(flash, cmd.arg) \o << PROTO_INSYNC, PROTO_OK >>

\* C8: once a command has been answered OK the session never returns because
\* TIMER_BL_WAIT reached zero; the only return is the one inside BOOT.
C8_InactivityDisarm ==
  /\ [](accepted => returned \in {"no", "boot"})
  /\ [][accepted /\ returned' # returned => Boot /\ cmd'.status = PROTO_OK]_vars

\* C8 witness: the session was entered with a timeout, a command has been
\* answered OK, the timer has run out, and the session is still in its loop.
C8_Witness ==
  /\ entry_timeout > 0
  /\ accepted
  /\ timer_bl_wait = 0
  /\ returned = "no"

\* C9: a session entered with timeout > 0 in which no command is ever answered
\* OK eventually returns, and does not return before TIMER_BL_WAIT is zero.
C9_InactivityReturn ==
  /\ (entry_timeout > 0 => <>(accepted \/ returned # "no"))
  /\ [](returned = "timeout" => timer_bl_wait = 0)

\* C9 witness: a session entered with a timeout has answered a command
\* INVALID, accepted none, and has returned on the timer.
C9_Witness ==
  /\ entry_timeout > 0
  /\ returned = "timeout"
  /\ ~accepted
  /\ cmd.status = PROTO_INVALID

\* C10: a PROG_MULTI with length byte 0 and EOC is answered INVALID and changes
\* none of address, first_word, the key region, bl_type or the timeout.
C10_ProgMultiEmpty ==
  [][ProgMulti /\ cmd'.arg = 0
       => /\ cmd'.status = PROTO_INVALID
          /\ UNCHANGED << address, first_word, key, bl_type, timeout >>]_vars

\* C11: whenever the key region is all zero when a complete
\* PROG_MULTI_ENCRYPTED frame is received, also when an unencrypted PROG_MULTI
\* at address 0 zeroed it earlier in the session, the frame is answered
\* BAD_KEY and no flash word is programmed; a CHECK_KEY with EOC is answered
\* BAD_KEY in that state too.  (Stated for the frames that fit the region.)
C11_BadKeyWhenZero ==
  [][key = ZeroKey =>
       /\ UploadEncrypted /\ address + KeyEncLen <= fw_size
            => cmd'.status = PROTO_BAD_KEY /\ flash' = flash
       /\ CheckKey /\ cmd'.status # PROTO_INVALID
            => cmd'.status = PROTO_BAD_KEY]_vars

\* a complete PROG_MULTI_ENCRYPTED frame whose length is a nonzero multiple of 16
EncWholeBlocks ==
  \E li \in Sources(bl_type), arg \in { a \in EncLens : a > 0 /\ a % 16 = 0 } :
     ProgMultiEncryptedFrame(li, arg, "none")

\* SET_IV has been answered OK and nothing has moved address from its value
\* at entry
AfterFirstSetIv ==
  /\ cmd = [op |-> PROTO_SET_IV, arg |-> 0, status |-> PROTO_OK]
  /\ iv = HostIV
  /\ address = fw_size
  /\ first_word = ERASED_WORD

\* C12 (as stated): in a session entered with an all-zero key, SET_IV followed
\* by a complete PROG_MULTI_ENCRYPTED frame of a nonzero multiple of 16 bytes,
\* as the first two commands, is answered OK and then BAD_KEY.
C12_Scenario5 ==
  [][key = ZeroKey /\ AfterFirstSetIv /\ EncWholeBlocks
       => cmd'.status = PROTO_BAD_KEY]_vars

\* C12 (amended): in a session entered with an all-zero key, a complete
\* PROG_MULTI_ENCRYPTED frame of a nonzero multiple of 16 bytes is answered
\* INVALID while address + len exceeds fw_size, as it does for the first two
\* commands SET_IV, PROG_MULTI_ENCRYPTED, and BAD_KEY once it fits; neither
\* programs a word.
C12_Scenario5ByAddress ==
  [][key = ZeroKey /\ EncWholeBlocks =>
       /\ cmd'.status = IF address + cmd'.arg > fw_size THEN PROTO_INVALID
                        ELSE PROTO_BAD_KEY
       /\ AfterFirstSetIv => cmd'.status = PROTO_INVALID
       /\ UNCHANGED << flash, address, first_word >>]_vars

\* C12 witness: entered with a zero key, SET_IV was answered OK and the
\* encrypted frame that followed was answered INVALID at address fw_size.
C12_Witness ==
  /\ key = ZeroKey
  /\ iv = HostIV
  /\ address = fw_size
  /\ accepted
  /\ cmd.op = PROTO_PROG_MULTI_ENCRYPTED
  /\ cmd.arg = 16
  /\ cmd.status = PROTO_INVALID

\* no byte of the key region goes from zero to nonzero in the step
KeyMonotone ==
  \A i \in 1..4 : \A j \in 1..4 : key[i][j] = 0 => key'[i][j] = 0

\* C13 (as stated): the key region changes only during a PROG_MULTI at address
\* 0 that is answered OK; one answered FAILED, INVALID or BAD_SILICON and every
\* other command leave it unchanged; no byte of it goes from zero to nonzero.
C13_KeyZeroedOnOk ==
  [][/\ key' # key => ProgMulti /\ address = 0 /\ cmd'.status = PROTO_OK
     /\ KeyMonotone]_vars

\* C13 (amended): the key region changes only during a PROG_MULTI at address 0
\* that has passed its argument, payload, EOC and silicon checks, whether it
\* is then answered OK or FAILED, and such a command leaves it all zero; one
\* answered INVALID or BAD_SILICON and every other command leave it
\* unchanged; no byte of it goes from zero to nonzero.
C13_KeyZeroedOnProgram ==
  [][/\ key' # key
          => ProgMulti /\ address = 0 /\ cmd'.status \in {PROTO_OK, PROTO_FAILED}
     /\ ProgMulti /\ address = 0 /\ cmd'.status \in {PROTO_OK, PROTO_FAILED}
          => key' = ZeroKey
     /\ KeyMonotone]_vars

\* C13 witness: the session was entered with an intact key, and a PROG_MULTI
\* at address 0 that failed its verify at the second word has zeroed it.
C13_Witness ==
  /\ key_state = 0
  /\ key = ZeroKey
  /\ cmd.op = PROTO_PROG_MULTI
  /\ cmd.status = PROTO_FAILED
  /\ address = 4
  /\ first_word = HostWord(0)

----------------------------------------------------------------------------
\* The CRC32 of the specification, bit by bit: polynomial 0xEDB88320
\* (reflected), seed 0, no final XOR.  The register is kept as its two 16-bit
\* halves.
REF_POLY_HI == 60856
REF_POLY_LO == 33568

\* a ^ b on 16-bit halves
Xor16(a, b) == 256 * Xor8(a \div 256, b \div 256) + Xor8(a % 256, b % 256)

\* n shifts of the register <<hi, lo>>
RECURSIVE RefCrcShift(_, _, _)
RefCrcShift(hi, lo, n) ==
  IF n = 0 THEN << hi, lo >>
  ELSE LET shi == hi \div 2
           slo == (lo \div 2) + 32768 * (hi % 2)
       IN  IF lo % 2 = 0 THEN RefCrcShift(shi, slo, n - 1)
           ELSE RefCrcShift(Xor16(shi, REF_POLY_HI), Xor16(slo, REF_POLY_LO), n - 1)

\* the register after the bytes of src
RECURSIVE RefCrc(_, _)
RefCrc(src, reg) ==
  IF src = << >> \/ reg = << >> THEN reg
  ELSE RefCrc(Tail(src), RefCrcShift(reg[1], Xor16(reg[2], Head(src)), 8))

\* the register as the four bytes of a little-endian uint32_t
RefCrcBytes(reg) ==
  << reg[2] % 256, reg[2] \div 256, reg[1] % 256, reg[1] \div 256 >>

\* the fw_size bytes of the host's image of n bytes followed by 0xFF
PaddedImage(n) ==
  HostBytes(0, n) \o [i \in 1..(fw_size - n) |-> 255]

\* n bytes of the host's image have been uploaded and verified since the
\* erase, and BOOT has not written the first word: word 0 still reads
\* 0xFFFFFFFF and the host's first word is held in first_word
UploadedState(bt, a, fw, fl, n) ==
  /\ bt # NONE
  /\ a = n
  /\ fw = HostWord(0)
  /\ fl = [i \in 1..FwWords |->
             IF i = 1 \/ 4 * (i - 1) >= n THEN ERASED_WORD ELSE HostWord(i - 1)]
UploadedTo(n) == UploadedState(bl_type, address, first_word, flash, n)
\* the lengths of image the host has uploaded
ImageLens == { 4 * i : i \in 1..FwWords }

\* C14: after an upload of image I answered OK throughout and before BOOT,
\* GET_CRC replies with the CRC32 of the fw_size bytes made of the host's
\* first word, the rest of I and 0xFF up to fw_size, followed by OK, while
\* word 0 of the flash still reads 0xFFFFFFFF.
C14_CrcOfPendingImage ==
  [][(cmd'.op = PROTO_GET_CRC /\ cmd'.status = PROTO_OK
        /\ address \in ImageLens /\ UploadedTo(address) /\ GetCrc)
       => /\ TxOn(bl_type)' = RefCrcBytes(RefCrc(PaddedImage(address), << 0, 0 >>))
                                 \o << PROTO_INSYNC, PROTO_OK >>
          /\ flash_func_read_word(flash', 0) = ERASED_WORD]_vars

\* C14 witness: GET_CRC has been answered OK after the upload of the first
\* two words, with word 0 of the flash still erased.
C14_Witness ==
  /\ UploadedTo(8)
  /\ cmd.op = PROTO_GET_CRC
  /\ cmd.status = PROTO_OK
  /\ Len(TxOn(bl_type)) = 6

\* the application region right after a CHIP_ERASE answered OK
ErasedAll ==
  /\ bl_type # NONE
  /\ address = 0
  /\ flash = [i \in 1..FwWords |-> ERASED_WORD]

\* C15: CHIP_ERASE answered OK, then PROG_MULTI frames answered OK that carry
\* the consecutive chunks of an image I of at least one word, then BOOT
\* answered OK leave bytes [0, |I|) of the region equal to I, word 0 included,
\* and bytes [|I|, fw_size) equal to 0xFF, and the session returns; when the
\* writes of the flash driver succeed each of these commands, well formed
\* and on good silicon, is answered OK.
C15_EndToEndUpload ==
  [][/\ ChipErase /\ cmd'.status = PROTO_OK => ErasedAll'
     /\ ErasedAll /\ ProgMulti /\ cmd'.status = PROTO_OK
          => IF cmd'.arg = 0 THEN ErasedAll'
             ELSE UploadedState(bl_type', address', first_word', flash', cmd'.arg)
     /\ \A n \in ImageLens :
          /\ UploadedTo(n) /\ ProgMulti /\ cmd'.status = PROTO_OK
               => UploadedState(bl_type', address', first_word', flash', n + cmd'.arg)
          /\ UploadedTo(n) /\ Boot /\ cmd'.status = PROTO_OK
               => /\ WordsToBytes(flash') = PaddedImage(n)
                  /\ returned' = "boot"
     /\ bad_cells = {}
          => /\ ChipErase => cmd'.status \in {PROTO_OK, PROTO_INVALID, PROTO_BAD_SILICON_REV}
             /\ ProgMulti => cmd'.status \in {PROTO_OK, PROTO_INVALID, PROTO_BAD_SILICON_REV}
             /\ Boot => cmd'.status \in {PROTO_OK, PROTO_INVALID}]_vars

\* C15 witness: the session has returned from BOOT after the upload of
\* AA BB CC DD 11 22 33 44 on a healthy part: word 0 is 0xDDCCBBAA, word 1 is
\* 0x44332211 (bytes in memory order) and the rest of the region is erased.
C15_Witness ==
  /\ bad_cells = {}
  /\ returned = "boot"
  /\ cmd = [op |-> PROTO_BOOT, arg |-> 0, status |-> PROTO_OK]
  /\ address = 8
  /\ flash[1] = << 170, 187, 204, 221 >>
  /\ flash[2] = << 17, 34, 51, 68 >>
  /\ \A i \in 3..FwWords : flash[i] = ERASED_WORD

\* C16: a SET_DELAY frame with its delay byte in range and its EOC, received
\* when the two signature words in flash do not match, is answered FAILED and
\* writes nothing to flash; one whose read-back of the updated signature word
\* differs is answered FAILED too.
C16_SetDelayFailed ==
  [][\A li \in Interfaces, v \in { d \in DelayBytes : d <= BOOT_DELAY_MAX } :
       SetDelayFrame(li, v, "none") =>
         /\ ~SignatureMatches(flash)
              => cmd'.status = PROTO_FAILED /\ flash' = flash
         /\ SignatureMatches(flash)
              /\ flash_func_read_word(flash', BOOT_DELAY_ADDRESS) # DelayValue(v)
              => cmd'.status = PROTO_FAILED]_vars

\* the length bytes of PROG_MULTI_ENCRYPTED that are 0, not a multiple of 16,
\* or 255 and above
BadEncLens == { a \in EncLens : a = 0 \/ a % 16 # 0 \/ a >= PROTO_PROG_MULTI_MAX }

\* C17: every PROG_MULTI_ENCRYPTED frame whose len is 0, is not a multiple of
\* 16 or is 255 or more is answered INVALID whatever the key state and the
\* address, programs no flash word and changes none of address, first_word,
\* num_to_flash, crc32_sum and the IV.
C17_EncLengthCheck ==
  [][\A li \in Interfaces, arg \in BadEncLens :
       ProgMultiEncryptedFrame(li, arg, "none") =>
         /\ cmd'.status = PROTO_INVALID
         /\ UNCHANGED << flash, address, first_word, num_to_flash, crc32_sum, iv >>]_vars

\* the bytes t end with the reply INSYNC OK
EndsWithOk(t) ==
  Len(t) >= 2 /\ SubSeq(t, Len(t) - 1, Len(t)) = << PROTO_INSYNC, PROTO_OK >>

\* C18: bl_type stays NONE and the inactivity timeout stays as it was through
\* commands answered INVALID, FAILED, BAD_SILICON or BAD_KEY and through
\* unknown opcode bytes; the first command answered OK sets bl_type to the
\* transport recorded in last_input, sets timeout to 0, and its OK reply is
\* emitted on that transport.
C18_FirstAccept ==
  [][/\ bl_type = NONE /\ Handler
          /\ cmd'.status \in {NO_REPLY, PROTO_INVALID, PROTO_FAILED,
                               PROTO_BAD_SILICON_REV, PROTO_BAD_KEY}
          => bl_type' = NONE /\ timeout' = timeout
     /\ ~accepted /\ Handler /\ cmd'.status = PROTO_OK
          => /\ bl_type' = last_input'
             /\ timeout' = 0
             /\ EndsWithOk(IF last_input' = USB THEN tx'.usb ELSE tx'.uart)]_vars

\* the decrypted payload P, as words, of the frame of length arg the host
\* sends when the device is at address: P[i] is bytes [4(i-1), 4i) of P
Payload(arg) ==
  LET dec == DecryptLoop(flash_buffer, HostCipherWords(address, arg), key, iv,
                         0, arg \div 16)
  IN  [i \in 1..(arg \div 4) |-> dec.buf[i]]

\* C19: a PROG_MULTI_ENCRYPTED frame of an accepted length len (16 included)
\* answered OK at address 0 takes num_to_flash and crc32_sum from P[0..8) and
\* first_word from P[16..20) of its own payload, leaves word 0 of the flash
\* 0xFFFFFFFF, programs P[20..len) at offsets [4, len-16) and leaves address
\* at len - 16; a later frame answered OK appends its whole payload at
\* address.
C19_EncFirstPacket ==
  [][\A li \in Interfaces, arg \in { a \in EncLens : a > 0 /\ a % 16 = 0 } :
       ProgMultiEncryptedFrame(li, arg, "none") /\ cmd'.status = PROTO_OK =>
         IF address = 0
         THEN /\ num_to_flash' = Payload(arg)[1]
              /\ crc32_sum' = Payload(arg)[2]
              /\ arg >= 20
              /\ first_word' = Payload(arg)[5]
              /\ flash_func_read_word(flash', 0) = ERASED_WORD
              /\ \A i \in 6..(arg \div 4) :
                    flash_func_read_word(flash', 4 * (i - 5)) = Payload(arg)[i]
              /\ address' = arg - 16
         ELSE /\ \A i \in 1..(arg \div 4) :
                    flash_func_read_word(flash', address + 4 * (i - 1)) = Payload(arg)[i]
              /\ address' = address + arg]_vars

\* the index in flash_buffer of the first word a programming command writes:
\* an encrypted first packet skips its 16-byte header
FirstWritten ==
  IF cmd'.op = PROTO_PROG_MULTI_ENCRYPTED /\ address = 0 THEN 4 ELSE 0

\* C20: address never exceeds fw_size; the words PROG_MULTI and
\* PROG_MULTI_ENCRYPTED write lie at offsets in [0, fw_size); and outside
\* CHIP_ERASE address changes only in these two commands, by 4 for each word
\* that has been written and read back equal.
C20_AddressBound ==
  /\ [](address \in 0..fw_size /\ address % 4 = 0)
  /\ [][/\ address' # address /\ ~ChipErase
             => /\ ProgMulti \/ ProgMultiEncrypted
                /\ address' > address
                /\ \A i \in 1..((address' - address) \div 4) :
                     /\ address + 4 * (i - 1) < fw_size
                     /\ flash_func_read_word(flash', address + 4 * (i - 1))
                          = flash_buffer'[FirstWritten + i]
        /\ (ProgMulti \/ ProgMultiEncrypted) /\ cmd'.status \in {PROTO_OK, PROTO_FAILED}
             => /\ address' <= address + cmd'.arg
                /\ address + cmd'.arg <= fw_size
        /\ ProgMulti /\ cmd'.status = PROTO_FAILED
             => address' + 4 <= address + cmd'.arg]_vars

\* C20 witness: a PROG_MULTI of two words that began one word below a
\* defective word has written and verified the first, advancing address by 4,
\* and failed its verify at the defective word, where address has stopped.
C20_Witness ==
  /\ bad_cells = {SectorWords}
  /\ cmd = [op |-> PROTO_PROG_MULTI, arg |-> 8, status |-> PROTO_FAILED]
  /\ address = 4 * SectorWords
  /\ flash_func_read_word(flash, address - 4) = HostWord(SectorWords - 1)
  /\ flash_func_read_word(flash, address) # HostWord(SectorWords)

----------------------------------------------------------------------------
\* the bytes the ring buffer holds, oldest first
Stored ==
  [i \in 1..((head + RxBufSize - tail) % RxBufSize) |->
     rx_buf[(tail + i - 1) % RxBufSize]]

\* the byte buf_get() has taken out of the buffer and not yet returned
InFlight == IF get_pc = "stored" THEN << rx_buf[get_t] >> ELSE << >>

\* C21: under any interleaving of the interrupt's buf_put with the steps of
\* the foreground's buf_get, head and tail stay inside the buffer, the buffer
\* holds at most its size less one, the bytes returned followed by the bytes
\* held are the bytes accepted, in order and once each; buf_put on a full
\* buffer changes neither index nor a stored byte, and buf_get on an empty
\* buffer returns -1 and changes nothing.
C21_RingBuffer ==
  /\ [](/\ head \in 0..(RxBufSize - 1)
        /\ tail \in 0..(RxBufSize - 1)
        /\ Len(Stored) <= RxBufSize - 1
        /\ put_log = get_log \o InFlight \o Stored)
  /\ [][/\ buf_put /\ (head + 1) % RxBufSize = tail
             => UNCHANGED << head, tail, rx_buf, put_log >>
        /\ buf_get_test /\ tail = head
             => /\ get_pc' = NoGet /\ get_ret' = -1
                /\ UNCHANGED << head, tail, rx_buf, get_log >>]_vars

\* C21 witness: the buffer is full, a buf_put has been dropped, and buf_get
\* has since returned the oldest byte.
C21_Witness ==
  /\ put_calls > Len(put_log)
  /\ Len(put_log) >= RxBufSize - 1
  /\ Len(get_log) = 1
  /\ get_pc = NoGet
  /\ get_log[1] = put_log[1]

----------------------------------------------------------------------------
\* the read the step arms: the handler's first read after its opcode, or the
\* next one after a byte
Arms == rd' # NoRead /\ rd' # rd

\* the deadlines common to the statement and its amendment: the length byte,
\* the payload bytes and the EOC
CommonDeadline(op, kind) ==
  CASE kind = "len" -> 50
    [] kind = "data" -> 1000
    [] OTHER -> IF op = PROTO_BOOT THEN 1000
                ELSE IF Len(frame(op)) > 2 /\ frame(op)[1] = "len" THEN 200
                ELSE 2

\* a read whose timer is at zero and that got no byte ends the command on
\* cmd_bad: INVALID, nothing accepted, no transport chosen
AbortsInvalid ==
  cin_expire => /\ timer_cin = 0
                /\ rd' = NoRead
                /\ cmd'.op = rd.op
                /\ cmd'.status = PROTO_INVALID
                /\ tx' = cout(bl_type, NoTx, << PROTO_INSYNC, PROTO_INVALID >>)
                /\ UNCHANGED << bl_type, accepted, returned, timeout >>

\* C22 (as stated): every argument byte read after the opcode of GET_DEVICE,
\* GET_OTP, GET_SN and SET_DELAY is awaited with a 1000 ms timeout, the length
\* byte of PROG_MULTI and PROG_MULTI_ENCRYPTED with 50 ms, each payload byte
\* with 1000 ms, the EOC of short commands with 2 ms, the EOC after a payload
\* with 200 ms and the EOC of BOOT with 1000 ms; a read that gets no byte
\* before its timer reaches zero aborts the command with INVALID.
C22_ReadDeadlines ==
  [][/\ Arms =>
          LET kind == frame(rd'.op)[rd'.idx]
          IN  timer_cin' = IF kind = "arg" THEN 1000
                           ELSE CommonDeadline(rd'.op, kind)
     /\ AbortsInvalid]_vars

\* C22 (amended): the argument byte of GET_DEVICE is awaited with a 1000 ms
\* timeout and every argument byte of GET_OTP, GET_SN and SET_DELAY with
\* 100 ms; the length byte, the payload bytes and the EOC as stated; a read
\* that gets no byte before its timer reaches zero aborts the command with
\* INVALID.
C22_ReadDeadlines100 ==
  [][/\ Arms =>
          LET kind == frame(rd'.op)[rd'.idx]
          IN  timer_cin' = IF kind = "arg"
                           THEN (IF rd'.op = PROTO_GET_DEVICE THEN 1000
                                 ELSE 100)
                           ELSE CommonDeadline(rd'.op, kind)
     /\ AbortsInvalid]_vars

\* C22 witness: three argument bytes of GET_SN came on USB, and the 100 ms of
\* the fourth have run out with no byte.
C22_Witness ==
  /\ rd = [op |-> PROTO_GET_SN, idx |-> 4]
  /\ timer_cin = 0
  /\ srcs = {USB}
  /\ cmd.status = NO_REPLY

----------------------------------------------------------------------------
\* C23: within a session, no flash word is programmed by PROG_MULTI or
\* PROG_MULTI_ENCRYPTED unless a CHIP_ERASE has been answered OK earlier in
\* the session; until then, and so after a CHIP_ERASE answered FAILED, every
\* such command with len > 0 is rejected.
C23_EraseBeforeProgram ==
  [][(ProgMulti \/ ProgMultiEncrypted) /\ ~erase_ok
       => /\ flash' = flash
          /\ cmd'.arg > 0 => cmd'.status # PROTO_OK]_vars

----------------------------------------------------------------------------
\* C24: every erase and every word write that bootloader() issues in a
\* session (by CHIP_ERASE, PROG_MULTI, PROG_MULTI_ENCRYPTED, SET_DELAY, BOOT
\* and zero_key) comes after flash_unlock() has been called in the session,
\* for every command order, SET_DELAY or BOOT as the first command included.
\* SET_DELAY writes when it is answered OK or FAILED, BOOT when it writes the
\* pending first word.
C24_UnlockBeforeWrite ==
  [][/\ ChipErase /\ cmd'.status \in {PROTO_OK, PROTO_FAILED}
          => flash_unlocked'
     /\ (ProgMulti \/ ProgMultiEncrypted) /\ (flash' # flash \/ key' # key)
          => flash_unlocked
     /\ SetDelay /\ cmd'.status \in {PROTO_OK, PROTO_FAILED}
          => flash_unlocked
     /\ Boot /\ boot_wrote' /\ ~boot_wrote
          => flash_unlocked]_vars

----------------------------------------------------------------------------
\* C25: with both transports enabled and bytes arriving on both in any
\* interleaving, every command that is answered OK, the first one included,
\* was assembled from bytes of one transport only, and bl_type is locked to
\* the transport that delivered its opcode; after the lock no byte of the
\* other transport enters the command stream.
C25_SingleTransport ==
  [][/\ cin_byte /\ cmd'.status = PROTO_OK
          => srcs' = {op_input} /\ bl_type' = op_input
     /\ (cin_opcode \/ cin_byte) /\ bl_type # NONE
          => last_input' = bl_type /\ srcs' \subseteq {bl_type}]_vars

====
